---- MODULE Spec2Model ----
(***************************************************************************)
(* Client-side session state machine of the StreamVerse front-end:         *)
(*   - TokenStorageService  (localStorage-backed Token Store)              *)
(*   - AuthService          (Session State Manager, BehaviorSubject state) *)
(*   - jwtInterceptor       (Request Authorizer)                           *)
(*   - Titles, CacheService (the titles pager and its poster cache)        *)
(* Strings are sequences of one-character strings so that split,           *)
(* startsWith, endsWith, base64 decoding and JSON parsing are computed.    *)
(***************************************************************************)
EXTENDS Integers, Sequences, FiniteSets, TLC

(***************************************************************************)
(* JavaScript values.  Every value has the same shape:                     *)
(*   t : "undefined" | "null" | "true" | "false" | "num" | "str" | "obj"   *)
(*   v : the characters of a string, or the decimal digits of a number     *)
(*   m : the members <<key, t, v>> of an object, in source order           *)
(***************************************************************************)
JUndefined == [t |-> "undefined", v |-> <<>>, m |-> <<>>]
JNull == [t |-> "null", v |-> <<>>, m |-> <<>>]
JBool(b) == [t |-> IF b THEN "true" ELSE "false", v |-> <<>>, m |-> <<>>]
JStr(s) == [t |-> "str", v |-> s, m |-> <<>>]
JNum(digits) == [t |-> "num", v |-> digits, m |-> <<>>]
JObj(members) == [t |-> "obj", v |-> <<>>, m |-> members]

\* JavaScript truthiness (ToBoolean), as used by !x, !!x and if (x).
Truthy(x) ==
  CASE x.t = "true" -> TRUE
    [] x.t = "obj" -> TRUE
    [] x.t = "str" -> x.v # <<>>
    [] x.t = "num" -> x.v \notin {<<"0">>, <<"N","a","N">>}
    [] OTHER -> FALSE

\* The left operand of ?? is replaced when it is null or undefined.
Nullish(x) == x.t \in {"undefined", "null"}

\* String(x) for the values written to storage.
ToStringJS(x) ==
  CASE x.t \in {"str", "num"} -> x.v
    [] x.t = "true" -> <<"t","r","u","e">>
    [] x.t = "false" -> <<"f","a","l","s","e">>
    [] x.t = "null" -> <<"n","u","l","l">>
    [] OTHER -> <<"u","n","d","e","f","i","n","e","d">>

(***************************************************************************)
(* String primitives.                                                      *)
(***************************************************************************)
StartsWith(s, p) == Len(p) <= Len(s) /\ SubSeq(s, 1, Len(p)) = p

EndsWith(s, p) ==
  Len(p) <= Len(s) /\ SubSeq(s, Len(s) - Len(p) + 1, Len(s)) = p

\* s.replace(/a/g, b) for single characters.
ReplaceAll(s, a, b) == [i \in 1..Len(s) |-> IF s[i] = a THEN b ELSE s[i]]

\* '='.repeat(n)
Repeat(c, n) == [i \in 1..n |-> c]

RECURSIVE SplitFrom(_, _, _, _)
SplitFrom(s, sep, i, cur) ==
  IF i > Len(s) THEN <<cur>>
  ELSE IF s[i] = sep THEN <<cur>> \o SplitFrom(s, sep, i + 1, <<>>)
  ELSE SplitFrom(s, sep, i + 1, Append(cur, s[i]))

\* s.split(sep) for a one-character separator.
Split(s, sep) == SplitFrom(s, sep, 1, <<>>)

(***************************************************************************)
(* atob: forgiving base64 decoding of the HTML standard.                   *)
(***************************************************************************)
Ascii ==
  <<" ","!","\"","#","$","%","&","'","(",")","*","+",",","-",".","/","0","1",
    "2","3","4","5","6","7","8","9",":",";","<","=",">","?","@","A","B","C",
    "D","E","F","G","H","I","J","K","L","M","N","O","P","Q","R","S","T","U",
    "V","W","X","Y","Z","[","\\","]","^","_","BACKTICK","a","b","c","d","e","f","g",
    "h","i","j","k","l","m","n","o","p","q","r","s","t","u","v","w","x","y",
    "z","{","|","}","~">>

B64 ==
  <<"A","B","C","D","E","F","G","H","I","J","K","L","M","N","O","P","Q","R",
    "S","T","U","V","W","X","Y","Z","a","b","c","d","e","f","g","h","i","j",
    "k","l","m","n","o","p","q","r","s","t","u","v","w","x","y","z","0","1",
    "2","3","4","5","6","7","8","9","+","/">>

B64Index(c) == (CHOOSE i \in 1..64 : B64[i] = c) - 1

IsB64Char(c) == \E i \in 1..64 : B64[i] = c

\* The character of a byte; bytes outside printable ASCII have no character
\* that JSON syntax gives a meaning to.
CharOfByte(b) == IF b >= 32 /\ b <= 126 THEN Ascii[b - 31] ELSE "\\x"

StripPadding(s) ==
  IF Len(s) % 4 = 0 /\ Len(s) >= 2 /\ s[Len(s)] = "=" /\ s[Len(s) - 1] = "="
    THEN SubSeq(s, 1, Len(s) - 2)
  ELSE IF Len(s) % 4 = 0 /\ Len(s) >= 1 /\ s[Len(s)] = "="
    THEN SubSeq(s, 1, Len(s) - 1)
  ELSE s

\* The bytes of a group of 4, 3 or 2 sextets, as characters.
Bytes3(n) ==
  <<CharOfByte(n \div 65536), CharOfByte((n \div 256) % 256),
    CharOfByte(n % 256)>>
Bytes2(n) == <<CharOfByte(n \div 1024), CharOfByte((n \div 4) % 256)>>
Bytes1(n) == <<CharOfByte(n \div 16)>>

RECURSIVE DecodeGroups(_)
DecodeGroups(s) ==
  IF Len(s) >= 4 THEN
    Bytes3(B64Index(s[1]) * 262144 + B64Index(s[2]) * 4096
           + B64Index(s[3]) * 64 + B64Index(s[4]))
      \o DecodeGroups(SubSeq(s, 5, Len(s)))
  ELSE IF Len(s) = 3 THEN
    Bytes2(B64Index(s[1]) * 4096 + B64Index(s[2]) * 64 + B64Index(s[3]))
  ELSE IF Len(s) = 2 THEN
    Bytes1(B64Index(s[1]) * 64 + B64Index(s[2]))
  ELSE <<>>

\* atob on the data left once the padding is removed.
AtobData(data) ==
  IF Len(data) % 4 = 1 \/ \E i \in 1..Len(data) : ~IsB64Char(data[i])
    THEN [ok |-> FALSE, val |-> <<>>]
    ELSE [ok |-> TRUE, val |-> DecodeGroups(data)]

\* atob(s): ok = FALSE is the InvalidCharacterError it throws.
Atob(s) == AtobData(StripPadding(s))

(***************************************************************************)
(* JSON.parse, for texts without whitespace, escapes, signs, fractions or  *)
(* nesting: a scalar, or one object whose members are scalars.             *)
(***************************************************************************)
Digits == {"0", "1", "2", "3", "4", "5", "6", "7", "8", "9"}

ParseFail == [ok |-> FALSE, val |-> JUndefined, next |-> 0]

MatchAt(s, i, lit) ==
  i + Len(lit) - 1 <= Len(s) /\ SubSeq(s, i, i + Len(lit) - 1) = lit

\* Index of the quote that closes a string whose content starts at j; 0 if
\* the text ends, or a character a string cannot hold comes, first.
RECURSIVE StringEnd(_, _)
StringEnd(s, j) ==
  IF j > Len(s) THEN 0
  ELSE IF s[j] = "\"" THEN j
  ELSE IF s[j] \in {"\\", "\\x"} THEN 0
  ELSE StringEnd(s, j + 1)

\* Index after the last digit of the digit run starting at i.
RECURSIVE NumEnd(_, _)
NumEnd(s, j) ==
  IF j <= Len(s) /\ s[j] \in Digits THEN NumEnd(s, j + 1) ELSE j

\* The string whose opening quote is at i and whose closing quote is at e.
StringToken(s, i, e) ==
  IF e = 0 THEN ParseFail
  ELSE [ok |-> TRUE, val |-> JStr(SubSeq(s, i + 1, e - 1)), next |-> e + 1]

\* The number whose digits are at i .. e - 1.
NumToken(s, i, e) ==
  IF s[i] = "0" /\ e > i + 1 THEN ParseFail
  ELSE [ok |-> TRUE, val |-> JNum(SubSeq(s, i, e - 1)), next |-> e]

ParseScalar(s, i) ==
  IF i > Len(s) THEN ParseFail
  ELSE IF s[i] = "\"" THEN StringToken(s, i, StringEnd(s, i + 1))
  ELSE IF s[i] \in Digits THEN NumToken(s, i, NumEnd(s, i))
  ELSE IF MatchAt(s, i, <<"t","r","u","e">>) THEN
    [ok |-> TRUE, val |-> JBool(TRUE), next |-> i + 4]
  ELSE IF MatchAt(s, i, <<"f","a","l","s","e">>) THEN
    [ok |-> TRUE, val |-> JBool(FALSE), next |-> i + 5]
  ELSE IF MatchAt(s, i, <<"n","u","l","l">>) THEN
    [ok |-> TRUE, val |-> JNull, next |-> i + 4]
  ELSE ParseFail

RECURSIVE ParseMembers(_, _, _)

\* After the member acc2 ends with, whose value was parsed as x.
MemberEnd(s, acc2, x) ==
  IF ~x.ok \/ x.next > Len(s) THEN ParseFail
  ELSE IF s[x.next] = "," THEN ParseMembers(s, x.next + 1, acc2)
  ELSE IF s[x.next] = "}" THEN
    [ok |-> TRUE, val |-> JObj(acc2), next |-> x.next + 1]
  ELSE ParseFail

\* The value of the member whose key was parsed as k, parsed as x.
MemberValue(s, acc, k, x) ==
  MemberEnd(s, Append(acc, [k |-> k.val.v, val |-> x.val]), x)

\* The member whose key was parsed as k.
MemberKey(s, acc, k) ==
  IF ~k.ok \/ k.next > Len(s) \/ s[k.next] # ":" THEN ParseFail
  ELSE MemberValue(s, acc, k, ParseScalar(s, k.next + 1))

\* The members of an object from position i (just after "{" or ",").
ParseMembers(s, i, acc) ==
  IF i > Len(s) \/ s[i] # "\"" THEN ParseFail
  ELSE MemberKey(s, acc, ParseScalar(s, i))

ParseValue(s, i) ==
  IF i <= Len(s) /\ s[i] = "{" THEN
    IF i + 1 <= Len(s) /\ s[i + 1] = "}"
      THEN [ok |-> TRUE, val |-> JObj(<<>>), next |-> i + 2]
      ELSE ParseMembers(s, i + 1, <<>>)
  ELSE ParseScalar(s, i)

\* The text must end where the value ends.
WholeText(s, r) ==
  IF r.ok /\ r.next = Len(s) + 1 THEN [ok |-> TRUE, val |-> r.val]
  ELSE [ok |-> FALSE, val |-> JUndefined]

\* JSON.parse(text): ok = FALSE is the SyntaxError it throws.
JSONParse(s) == WholeText(s, ParseValue(s, 1))

\* The last member of x named key.
LastMember(x, idx) == x.m[CHOOSE i \in idx : \A j \in idx : j <= i].val

\* x[key] for a property name that no string, number or boolean has; when a
\* key is repeated the last member is the property.
PropAt(x, idx) ==
  IF x.t # "obj" \/ idx = {} THEN JUndefined ELSE LastMember(x, idx)

GetProp(x, key) == PropAt(x, {i \in 1..Len(x.m) : x.m[i].k = key})

(***************************************************************************)
(* AuthService: JWT decoding helpers.                                      *)
(***************************************************************************)
\* decodeJwtPayload, after JSON.parse(json): null when it threw.
PayloadOfParsed(parsed) == IF parsed.ok THEN parsed.val ELSE JNull

\* decodeJwtPayload, after json = atob(padded): null when atob threw.
PayloadOfJson(json) ==
  IF ~json.ok THEN JNull ELSE PayloadOfParsed(JSONParse(json.val))

\* decodeJwtPayload, from base64: padded = base64 + '='.repeat(...)
PayloadOfBase64(base64) ==
  PayloadOfJson(Atob(base64 \o Repeat("=", (4 - (Len(base64) % 4)) % 4)))

\* decodeJwtPayload, from parts = token.split('.')
PayloadOfParts(parts) ==
  IF Len(parts) # 3 THEN JNull
  ELSE PayloadOfBase64(ReplaceAll(ReplaceAll(parts[2], "-", "+"), "_", "/"))

\* decodeJwtPayload(token): the payload, or null when anything throws.
decodeJwtPayload(token) == PayloadOfParts(Split(token, "."))

(***************************************************************************)
(* The access tokens a backend response can carry.                         *)
(***************************************************************************)
\* h.<base64url of {"user":"al>","admin":false,"exp":9}>.s
TokUser ==
  <<"h",".","e","y","J","1","c","2","V","y","I","j","o","i","Y","W","w","-",
    "I","i","w","i","Y","W","R","t","a","W","4","i","O","m","Z","h","b","H",
    "N","l","L","C","J","l","e","H","A","i","O","j","l","9",".","s">>

\* h.<base64url of {"user":"bo?","admin":1,"exp":7}>.s
TokAdmin ==
  <<"h",".","e","y","J","1","c","2","V","y","I","j","o","i","Y","m","8","_",
    "I","i","w","i","Y","W","R","t","a","W","4","i","O","j","E","s","I","m",
    "V","4","c","C","I","6","N","3","0",".","s">>

\* h.<base64url of xyz>.s : the payload is not JSON
TokNotJson ==
  <<"h",".","e","H","l","6",".","s">>

\* two segments only
TokTwoSeg ==
  <<"h",".","s">>

\* the middle segment is not base64
TokBadB64 ==
  <<"h",".","e","y","J","1","c",".","s">>

DecodableTokens == {TokUser, TokAdmin}
UndecodableTokens == {TokNotJson, TokTwoSeg, TokBadB64}
AccessTokens == DecodableTokens \cup UndecodableTokens

\* decodeJwtPayload of every token of the model, computed once.
PayloadOf == [t \in AccessTokens |-> decodeJwtPayload(t)]

\* c ?? null
OrNull(c) == IF Nullish(c) THEN JNull ELSE c

\* payload ? payload[claim] ?? null : null
ClaimOfPayload(payload, claim) ==
  IF Truthy(payload) THEN OrNull(GetProp(payload, claim)) ELSE JNull

\* getClaimFromToken(token, claim)
getClaimFromToken(token, claim) == ClaimOfPayload(PayloadOf[token], claim)

CLAIM_USER == <<"u","s","e","r">>
CLAIM_ADMIN == <<"a","d","m","i","n">>
CLAIM_EXP == <<"e","x","p">>

(***************************************************************************)
(* Bounds of the model.                                                    *)
(***************************************************************************)
\* Calls made on the services in one behaviour.
MaxCalls == 3

\* Requests in flight at the same time.
MaxPending == 2

\* The largest total_pages the backend reports.
MaxPages == 2

\* getTitles requests in flight at the same time.
MaxLoads == 2

\* getMoviePoster requests in flight for one title at the same time.
MaxPosterLoads == 2

(***************************************************************************)
(* String helpers of AuthService.login.                                    *)
(***************************************************************************)
Upper ==
  <<"A","B","C","D","E","F","G","H","I","J","K","L","M","N","O","P","Q","R",
    "S","T","U","V","W","X","Y","Z">>

Lower ==
  <<"a","b","c","d","e","f","g","h","i","j","k","l","m","n","o","p","q","r",
    "s","t","u","v","w","x","y","z">>

Whitespace == {" "}

ToLowerCase(s) ==
  [i \in 1..Len(s) |->
     IF \E j \in 1..26 : Upper[j] = s[i]
       THEN Lower[CHOOSE j \in 1..26 : Upper[j] = s[i]]
       ELSE s[i]]

RECURSIVE TrimStart(_)
TrimStart(s) ==
  IF s # <<>> /\ Head(s) \in Whitespace THEN TrimStart(Tail(s)) ELSE s

RECURSIVE TrimEnd(_)
TrimEnd(s) ==
  IF s # <<>> /\ s[Len(s)] \in Whitespace
    THEN TrimEnd(SubSeq(s, 1, Len(s) - 1))
    ELSE s

Trim(s) == TrimEnd(TrimStart(s))

(***************************************************************************)
(* URLs.                                                                   *)
(***************************************************************************)
\* jwtInterceptor: API_BASE
API_BASE ==
  <<"h","t","t","p",":","/","/","l","o","c","a","l","h","o","s","t",":","5",
    "0","0","0","/","a","p","i","/","v","1",".","0">>

\* WebService.BASE_URL
BASE_URL == API_BASE \o <<"/">>

\* ExternalService.BASE_URL
EXTERNAL_BASE_URL ==
  <<"h","t","t","p","s",":","/","/","w","w","w",".","o","m","d","b","a","p",
    "i",".","c","o","m","/">>

\* buildUrl(base, path, params) for a relative path and a base that ends in
\* "/": new URL(path, base), then the query string of params.
buildUrl(base, path, query) == base \o path \o query

\* The query string of a poster lookup.
POSTER_QUERY == <<"?","t","=","x">>

PATH_LOGIN == <<"a","u","t","h","/","l","o","g","i","n">>
PATH_LOGOUT == <<"a","u","t","h","/","l","o","g","o","u","t">>
PATH_REFRESH ==
  <<"a","u","t","h","/","t","o","k","e","n","/","r","e","f","r","e","s","h">>
PATH_TITLES == <<"t","i","t","l","e","s">>

LOGIN_SUFFIX == <<"/">> \o PATH_LOGIN

BEARER == <<"B","e","a","r","e","r"," ">>

(***************************************************************************)
(* localStorage: every key holds a string or null (absent).                *)
(***************************************************************************)
ACCESS_KEY == "access_token"
EXP_KEY == "expiration"
REFRESH_KEY == "refresh_token"
SESSION_EXPIRED_KEY == "session_expired"

StorageKeys == {ACCESS_KEY, EXP_KEY, REFRESH_KEY, SESSION_EXPIRED_KEY}

EmptyStorage == [k \in StorageKeys |-> JNull]

getItem(st, k) == st[k]

\* setItem stores String(value).
setItem(st, k, x) == [st EXCEPT ![k] = JStr(ToStringJS(x))]

removeItem(st, k) == [st EXCEPT ![k] = JNull]

(***************************************************************************)
(* TokenStorageService.                                                    *)
(***************************************************************************)
getAccessToken(st) == getItem(st, ACCESS_KEY)

getExpiration(st) == getItem(st, EXP_KEY)

getRefreshToken(st) == getItem(st, REFRESH_KEY)

isSessionExpired(st) == getItem(st, SESSION_EXPIRED_KEY) = JStr(<<"1">>)

setSessionExpiredFlag(st) == setItem(st, SESSION_EXPIRED_KEY, JStr(<<"1">>))

clearSessionExpiredFlag(st) == removeItem(st, SESSION_EXPIRED_KEY)

\* The writes of the access token and of the expiration, which setTokens and
\* setAccessToken share: the expiration is written only when it is truthy.
storeAccessToken(st, accessToken, expiration) ==
  LET s1 == setItem(st, ACCESS_KEY, accessToken)
  IN IF Truthy(expiration) THEN setItem(s1, EXP_KEY, expiration) ELSE s1

\* setTokens(access, refresh?, expiration?)
setTokens(st, accessToken, refreshToken, expiration) ==
  LET s1 == storeAccessToken(st, accessToken, expiration)
      s2 == IF Truthy(refreshToken)
              THEN setItem(s1, REFRESH_KEY, refreshToken)
              ELSE s1
  IN clearSessionExpiredFlag(s2)

\* setAccessToken(access, expiration?)
setAccessToken(st, accessToken, expiration) ==
  clearSessionExpiredFlag(storeAccessToken(st, accessToken, expiration))

\* clearTokens(includeRefresh = true)
clearTokens(st, includeRefresh) ==
  LET s1 == removeItem(removeItem(st, ACCESS_KEY), EXP_KEY)
      s2 == IF includeRefresh THEN removeItem(s1, REFRESH_KEY) ELSE s1
  IN clearSessionExpiredFlag(s2)

(***************************************************************************)
(* AuthService.  A handler takes the world w = [ls, auth] (localStorage    *)
(* and the value of authState$) and returns the world it leaves, with      *)
(* threw = TRUE when it throws.                                            *)
(***************************************************************************)
LoggedOutState == [isLoggedIn |-> FALSE, username |-> JNull, isAdmin |-> FALSE]

World(st, auth) == [ls |-> st, auth |-> auth, threw |-> FALSE]

Throw(w) == [w EXCEPT !.threw = TRUE]

\* The state published for the claims user = username and admin = admin.
LoggedInState(username, admin) ==
  [isLoggedIn |-> TRUE,
   username |-> IF username.t = "str" THEN username ELSE JNull,
   isAdmin |-> Truthy(admin)]

\* Seeded fault: the admin claim of the token is not read.
updateAuthStateFromToken_NeverAdmin(token) ==
  LoggedInState(getClaimFromToken(token, CLAIM_USER), JBool(FALSE))

\* updateAuthStateFromToken(token): the state it publishes.
updateAuthStateFromToken(token) ==
  LoggedInState(getClaimFromToken(token, CLAIM_USER),
                getClaimFromToken(token, CLAIM_ADMIN))

\* Seeded fault: the constructor does not look at the stored token.
initializeAuthState_IgnoresStore(st) == LoggedOutState

\* The constructor: authState$ starts logged out, then initializeAuthState.
initializeAuthState(st) ==
  LET accessToken == getAccessToken(st)
  IN IF Truthy(accessToken)
       THEN updateAuthStateFromToken(accessToken.v)
       ELSE LoggedOutState

\* Seeded fault: the logged-out state keeps the username and the role.
clearAuthState_KeepsIdentity(w) ==
  [w EXCEPT !.ls = clearTokens(w.ls, TRUE), !.auth.isLoggedIn = FALSE]

\* Seeded fault: the three entries are removed one by one, without
\* clearTokens, so that the session-expired flag is left as it is.
clearAuthState_KeepsFlag(w) ==
  [w EXCEPT !.ls = removeItem(removeItem(removeItem(w.ls, ACCESS_KEY),
                                         EXP_KEY), REFRESH_KEY),
            !.auth = LoggedOutState]

clearAuthState(w) ==
  [w EXCEPT !.ls = clearTokens(w.ls, TRUE), !.auth = LoggedOutState]

\* Seeded fault: the tokens are stored but no state is published.
handleLoginSuccess_NoPublish(w, data) ==
  IF ~Truthy(data.access_token) \/ ~Truthy(data.refresh_token)
    THEN Throw(w)
    ELSE [w EXCEPT
            !.ls = setTokens(w.ls, data.access_token, data.refresh_token,
                             data.expiration)]

\* Seeded fault: the tokens are written entry by entry, without setTokens,
\* so that the session-expired flag is left as it is.
handleLoginSuccess_KeepsFlag(w, data) ==
  IF ~Truthy(data.access_token) \/ ~Truthy(data.refresh_token)
    THEN Throw(w)
    ELSE [w EXCEPT
            !.ls = setItem(storeAccessToken(w.ls, data.access_token,
                                            data.expiration),
                           REFRESH_KEY, data.refresh_token),
            !.auth = updateAuthStateFromToken(data.access_token.v)]

handleLoginSuccess(w, data) ==
  IF ~Truthy(data.access_token) \/ ~Truthy(data.refresh_token)
    THEN Throw(w)
    ELSE [w EXCEPT
            !.ls = setTokens(w.ls, data.access_token, data.refresh_token,
                             data.expiration),
            !.auth = updateAuthStateFromToken(data.access_token.v)]

\* Seeded fault: the refreshed access token replaces the whole session, so
\* that the refresh token is lost.
handleRefreshSuccess_DropsRefresh(w, accessToken) ==
  [w EXCEPT !.ls = setAccessToken(clearTokens(w.ls, TRUE), accessToken,
                                  getClaimFromToken(accessToken.v, CLAIM_EXP)),
            !.auth = updateAuthStateFromToken(accessToken.v)]

handleRefreshSuccess(w, accessToken) ==
  LET exp == getClaimFromToken(accessToken.v, CLAIM_EXP)
  IN [w EXCEPT !.ls = setAccessToken(w.ls, accessToken, exp),
               !.auth = updateAuthStateFromToken(accessToken.v)]

\* Seeded fault: a login response that arrives while a session is published
\* is ignored, so that the first of two logins wins.
loginNext_FirstWins(w, response) ==
  IF response.success /\ response.data /\ ~w.auth.isLoggedIn
    THEN handleLoginSuccess(w, response)
    ELSE w

\* login(): tap on a response
loginNext(w, response) ==
  IF response.success /\ response.data
    THEN handleLoginSuccess(w, response)
    ELSE w

\* Seeded fault: a failed login clears the session, as a failed refresh does.
loginError_Clears(w) == clearAuthState(w)

\* login(): catchError rethrows
loginError(w) == w

\* logout(): tap on a response
logoutNext(w) == clearAuthState(w)

\* Seeded fault: a failed logout only rethrows.
logoutError_NoClear(w) == w

\* logout(): catchError clears, then rethrows
logoutError(w) == clearAuthState(w)

\* refreshSession(): tap on a response
refreshNext(w, response) ==
  IF response.success /\ response.data /\ Truthy(response.access_token)
    THEN handleRefreshSuccess(w, response.access_token)
    ELSE w

\* Seeded fault: a failed refresh only rethrows.
refreshError_NoClear(w) == w

\* refreshSession(): catchError clears, then rethrows
refreshError(w) == clearAuthState(w)

\* The getters.
isLoggedIn(auth) == auth.isLoggedIn
currentUsername(auth) == auth.username
isAdmin(auth) == auth.isAdmin
hasExpiredSession(st, auth) ==
  ~isLoggedIn(auth) /\ Truthy(getRefreshToken(st)) /\ isSessionExpired(st)

(***************************************************************************)
(* jwtInterceptor.                                                         *)
(***************************************************************************)
UNAUTHORIZED == 401

\* Seeded fault: the header is attached whatever the URL.
jwtInterceptor_AnyUrl(st, request) ==
  IF ~Truthy(getItem(st, ACCESS_KEY))
    THEN request
    ELSE [request EXCEPT
            !.authorization = JStr(BEARER \o getItem(st, ACCESS_KEY).v)]

\* Seeded fault: the header is attached also when no token is stored.
jwtInterceptor_NoTokenCheck(st, request) ==
  IF ~StartsWith(request.url, API_BASE) \/ EndsWith(request.url, LOGIN_SUFFIX)
    THEN request
    ELSE [request EXCEPT
            !.authorization =
               JStr(BEARER \o ToStringJS(getItem(st, ACCESS_KEY)))]

\* The request that is handed to next(): with the Authorization header only
\* for an API request, other than login, made while an access token is stored.
jwtInterceptor(st, request) ==
  LET accessToken == getItem(st, ACCESS_KEY)
      isApiRequest == StartsWith(request.url, API_BASE)
      isLoginRequest == EndsWith(request.url, LOGIN_SUFFIX)
  IN IF ~isApiRequest \/ isLoginRequest \/ ~Truthy(accessToken)
       THEN request
       ELSE [request EXCEPT !.authorization = JStr(BEARER \o accessToken.v)]

\* Seeded fault: a 401 clears the whole store and sets no flag.
jwtInterceptorError_ClearsAll(st, request, status) ==
  IF request.authorization # JUndefined /\ status = UNAUTHORIZED
    THEN EmptyStorage
    ELSE st

\* Seeded fault: any error answer to a request with the header invalidates
\* the session, whatever its status.
jwtInterceptorError_AnyStatus(st, request, status) ==
  IF request.authorization # JUndefined
    THEN setItem(removeItem(removeItem(st, ACCESS_KEY), EXP_KEY),
                 SESSION_EXPIRED_KEY, JStr(<<"1">>))
    ELSE st

\* catchError is piped only onto a request that got the header.
jwtInterceptorError(st, request, status) ==
  IF request.authorization # JUndefined /\ status = UNAUTHORIZED
    THEN setItem(removeItem(removeItem(st, ACCESS_KEY), EXP_KEY),
                 SESSION_EXPIRED_KEY, JStr(<<"1">>))
    ELSE st

(***************************************************************************)
(* Inputs: credentials typed by the user, and what the backend answers.    *)
(***************************************************************************)
Usernames == {<<>>, <<" ">>, <<" ","A","l">>}
Passwords == {<<>>, <<" ","P">>}

RefreshTok1 == <<"r","1">>
RefreshTok2 == <<"r","2">>

\* A response body: success and data say whether the body has a true
\* success field and a data object; the other fields are those of data.
Body(success, data, access, refresh, expiration) ==
  [success |-> success, data |-> data, access_token |-> access,
   refresh_token |-> refresh, expiration |-> expiration]

EmptyBody == Body(FALSE, FALSE, JUndefined, JUndefined, JUndefined)

LoginBodies ==
  {Body(TRUE, TRUE, JStr(TokUser), JStr(RefreshTok1), JNum(<<"5">>)),
   Body(TRUE, TRUE, JStr(TokAdmin), JStr(RefreshTok2), JUndefined),
   Body(TRUE, TRUE, JUndefined, JStr(RefreshTok1), JUndefined),
   Body(TRUE, TRUE, JStr(TokUser), JUndefined, JUndefined),
   Body(TRUE, FALSE, JUndefined, JUndefined, JUndefined),
   EmptyBody}
  \cup {Body(TRUE, TRUE, JStr(t), JStr(RefreshTok1), JUndefined) :
          t \in UndecodableTokens}

RefreshBodies ==
  {Body(TRUE, TRUE, JStr(t), JUndefined, JUndefined) :
     t \in {TokUser, TokAdmin, TokTwoSeg}}
  \cup {Body(TRUE, TRUE, JUndefined, JUndefined, JUndefined), EmptyBody}

NoResponse == [kind |-> "none", status |-> 0, body |-> EmptyBody]
OkResponse(body) == [kind |-> "ok", status |-> 200, body |-> body]
ErrResponse(status) == [kind |-> "err", status |-> status, body |-> EmptyBody]

ErrResponses == {ErrResponse(UNAUTHORIZED), ErrResponse(500)}

\* What the backend can answer to a request of each operation.
ResponsesTo(op) ==
  ErrResponses \cup
    (CASE op = "login" -> {OkResponse(b) : b \in LoginBodies}
       [] op = "refresh" -> {OkResponse(b) : b \in RefreshBodies}
       [] OTHER -> {OkResponse(EmptyBody)})

NoBody == [username |-> <<>>, password |-> <<>>, refresh_token |-> <<>>]

\* A request as HttpClient builds it, before the interceptor.
Request(id, op, url, body) ==
  [id |-> id, op |-> op, url |-> url, authorization |-> JUndefined,
   body |-> body, resp |-> NoResponse]

NoCall == [id |-> 0, op |-> "none", username |-> <<>>, password |-> <<>>]
Call(id, op) == [id |-> id, op |-> op, username |-> <<>>, password |-> <<>>]

\* What a subscriber receives: a response (next), or an error, which is
\* the HttpErrorResponse of the backend with its status or a thrown Error.
NoResult == [id |-> 0, op |-> "none", kind |-> "none", err |-> "", status |-> 0]
NextResult(id, op) ==
  [id |-> id, op |-> op, kind |-> "next", err |-> "", status |-> 200]
ThrownResult(id, op, err) ==
  [id |-> id, op |-> op, kind |-> "error", err |-> err, status |-> 0]
HttpErrorResult(id, op, status) ==
  [id |-> id, op |-> op, kind |-> "error", err |-> "HttpErrorResponse",
   status |-> status]

(***************************************************************************)
(* Numbers of the titles pager.  A number is its decimal digits, or NaN.   *)
(***************************************************************************)
NaN == JNum(<<"N","a","N">>)

DigitChars == <<"0", "1", "2", "3", "4", "5", "6", "7", "8", "9">>

DigitValue(c) == (CHOOSE i \in 1..10 : DigitChars[i] = c) - 1

IsDigits(s) == s # <<>> /\ \A i \in 1..Len(s) : s[i] \in Digits

\* Number.isInteger(x)
IsInteger(x) == x.t = "num" /\ IsDigits(x.v)

RECURSIVE IntOf(_)
\* The value of a string of decimal digits.
IntOf(s) ==
  IF s = <<>> THEN 0
  ELSE 10 * IntOf(SubSeq(s, 1, Len(s) - 1)) + DigitValue(s[Len(s)])

RECURSIVE DigitsOfInt(_)
\* The decimal digits of a natural number.
DigitsOfInt(n) ==
  IF n < 10 THEN <<DigitChars[n + 1]>>
  ELSE DigitsOfInt(n \div 10) \o <<DigitChars[(n % 10) + 1]>>

\* Number(s) for the strings kept in sessionStorage: the empty string is 0,
\* decimal digits are their value, "undefined" and "NaN" are NaN.
NumberOfString(s) ==
  IF s = <<>> THEN JNum(<<"0">>)
  ELSE IF IsDigits(s) THEN JNum(DigitsOfInt(IntOf(s)))
  ELSE NaN

\* a < b on numbers and undefined: undefined converts to NaN, and every
\* comparison with NaN is false.
LessThan(a, b) == IsInteger(a) /\ IsInteger(b) /\ IntOf(a.v) < IntOf(b.v)

\* a !== b: NaN differs from itself.
StrictNotEqual(a, b) == a # b \/ a = NaN

\* x + 1 and x - 1 on an integer.
Increment(x) == JNum(DigitsOfInt(IntOf(x.v) + 1))
Decrement(x) == JNum(DigitsOfInt(IntOf(x.v) - 1))

ONE == JNum(<<"1">>)

(***************************************************************************)
(* sessionStorage, of which the application uses the key 'page'.           *)
(***************************************************************************)
PAGE_KEY == "page"

EmptySessionStorage == [k \in {PAGE_KEY} |-> JUndefined]

\* sessionStorage['page'] = x stores String(x).
setSessionItem(st, k, x) == [st EXCEPT ![k] = JStr(ToStringJS(x))]

(***************************************************************************)
(* CacheService: an object used as a map from title _id to poster URL.     *)
(***************************************************************************)
TitleIds == {"t1", "t2"}

EmptyCache == [id \in TitleIds |-> JUndefined]

\* get(titleId): this.cache[titleId] || null
CacheGet(c, titleId) == IF Truthy(c[titleId]) THEN c[titleId] ELSE JNull

\* set(titleId, posterUrl): this.cache[titleId] = posterUrl
CacheSet(c, titleId, posterUrl) == [c EXCEPT ![titleId] = posterUrl]

\* has(titleId): !!this.cache[titleId]
CacheHas(c, titleId) == Truthy(c[titleId])

\* What the OMDb lookup answers: a body with a Poster, or one without.
POSTER_URL == <<"h","t","t","p",":","/","/","p">>

PosterResponses == {[Poster |-> JStr(POSTER_URL)], [Poster |-> JUndefined]}

\* response.Poster || ''
PosterOrEmpty(response) ==
  IF Truthy(response.Poster) THEN response.Poster ELSE JStr(<<>>)

\* What the backend answers to getTitles: data.titles and data.total_pages.
TitleLists == {<<"t1">>, <<"t1", "t2">>}

TitlesResponses ==
  {[titles |-> l, total_pages |-> JNum(DigitsOfInt(n))] :
     l \in TitleLists, n \in 1..MaxPages}

(***************************************************************************)
(* State.                                                                  *)
(***************************************************************************)
VARIABLES
  localStorage,  \* the browser's localStorage
  authState,     \* the value of AuthService.authState$
  pending,       \* the HTTP requests in flight, with the response once sent
  nextId,        \* the number of the next call
  lastCall,      \* the last call made on a service, with its arguments
  lastResult     \* what the subscriber of the last finished call received

\* The AuthService above is the one the auth button calls.  The navigation
\* bar, the user badge and the title pages inject the root instance.
VARIABLES
  rootAuthState  \* the value of authState$ of the root AuthService

\* The Titles page: its pager, its CacheService and its requests in flight.
VARIABLES
  page,            \* Titles.page
  totalPages,      \* Titles.totalPages
  list_of_titles,  \* Titles.list_of_titles, the _id of each title
  sessionStorage,  \* the browser's sessionStorage
  cache,           \* CacheService.cache
  titleLoads,      \* the pn of each getTitles request in flight
  posterLoads      \* per title, the getMoviePoster requests in flight

authVars ==
  <<localStorage, authState, rootAuthState, pending, nextId, lastCall,
    lastResult>>

titlesVars ==
  <<page, totalPages, list_of_titles, sessionStorage, cache, titleLoads,
    posterLoads>>

vars == <<authVars, titlesVars>>

\* The Titles component as its field initialisers leave it, with a new
\* CacheService of its own (providers: [WebService, CacheService]), on an
\* empty sessionStorage.
TitlesConstructed ==
  /\ page = ONE
  /\ totalPages = JUndefined
  /\ list_of_titles = <<>>
  /\ sessionStorage = EmptySessionStorage
  /\ cache = EmptyCache
  /\ titleLoads = <<>>
  /\ posterLoads = [id \in TitleIds |-> 0]

\* A fresh browser profile, and the AuthService constructed on it.
Init ==
  /\ localStorage = EmptyStorage
  /\ authState = initializeAuthState(EmptyStorage)
  /\ rootAuthState = initializeAuthState(EmptyStorage)
  /\ TitlesConstructed
  /\ pending = {}
  /\ nextId = 1
  /\ lastCall = NoCall
  /\ lastResult = NoResult

CanCall == nextId <= MaxCalls
CanSend == Cardinality(pending) < MaxPending

\* http.post / http.get: the request passes the interceptor and is sent.
Send(request) == pending' = pending \cup {jwtInterceptor(localStorage, request)}

\* Seeded fault: the username is lowercased but not trimmed.
normalizeUsername_NoTrim(u) == ToLowerCase(u)

\* Seeded fault: the username is trimmed but keeps its case.
normalizeUsername_KeepsCase(u) == Trim(u)

\* login(): credentials.username.trim().toLowerCase()
normalizeUsername(u) == ToLowerCase(Trim(u))

\* AuthService.login(credentials), subscribed to by the caller.
login(u, p) ==
  LET username == normalizeUsername(u)
      password == p
  IN /\ CanCall
     /\ nextId' = nextId + 1
     /\ lastCall' = [id |-> nextId, op |-> "login", username |-> u,
                     password |-> p]
     /\ IF username = <<>> \/ password = <<>>
          THEN /\ lastResult' = ThrownResult(nextId, "login", "InvalidInput")
               /\ UNCHANGED <<localStorage, authState, pending>>
          ELSE /\ CanSend
               /\ Send(Request(nextId, "login", buildUrl(BASE_URL, PATH_LOGIN, <<>>),
                               [NoBody EXCEPT !.username = username,
                                              !.password = password]))
               /\ UNCHANGED <<localStorage, authState, lastResult>>
     /\ UNCHANGED <<rootAuthState, titlesVars>>

\* AuthService.logout(), subscribed to by the caller.
logout ==
  /\ CanCall /\ CanSend
  /\ nextId' = nextId + 1
  /\ lastCall' = Call(nextId, "logout")
  /\ Send(Request(nextId, "logout", buildUrl(BASE_URL, PATH_LOGOUT, <<>>), NoBody))
  /\ UNCHANGED <<localStorage, authState, lastResult>>
  /\ UNCHANGED <<rootAuthState, titlesVars>>

\* Seeded fault: without a refresh token the call only fails.
refreshWithoutToken_NoClear(w) == w

\* refreshSession() when no refresh token is stored: clearAuthState(), then
\* the error is thrown to the caller.
refreshWithoutToken(w) == clearAuthState(w)

\* AuthService.refreshSession(), subscribed to by the caller.
refreshSession ==
  LET refreshToken == getRefreshToken(localStorage)
  IN /\ CanCall
     /\ nextId' = nextId + 1
     /\ lastCall' = Call(nextId, "refresh")
     /\ IF ~Truthy(refreshToken)
          THEN LET w == refreshWithoutToken(World(localStorage, authState))
               IN /\ localStorage' = w.ls
                  /\ authState' = w.auth
                  /\ lastResult' =
                       ThrownResult(nextId, "refresh", "NoRefreshToken")
                  /\ UNCHANGED pending
          ELSE /\ CanSend
               /\ Send(Request(nextId, "refresh",
                               buildUrl(BASE_URL, PATH_REFRESH, <<>>),
                               [NoBody EXCEPT !.refresh_token = refreshToken.v]))
               /\ UNCHANGED <<localStorage, authState, lastResult>>
     /\ UNCHANGED <<rootAuthState, titlesVars>>

\* Seeded fault: dismissing the warning ends the session.
dismissWarning_LogsOut(w) == clearAuthState(w)

\* dismissSessionWarning(): tokenStorageService.clearSessionExpiredFlag()
dismissWarning(w) == [w EXCEPT !.ls = clearSessionExpiredFlag(w.ls)]

\* AuthService.dismissSessionWarning()
dismissSessionWarning ==
  LET w == dismissWarning(World(localStorage, authState))
  IN /\ localStorage' = w.ls
     /\ authState' = w.auth
     /\ UNCHANGED <<pending, nextId, lastCall, lastResult>>
     /\ UNCHANGED <<rootAuthState, titlesVars>>

\* A page component asks the backend for data (WebService), or the poster
\* service asks the external API (ExternalService).
httpGet(op) ==
  /\ op \in {"api", "external"}
  /\ CanCall /\ CanSend
  /\ nextId' = nextId + 1
  /\ lastCall' = Call(nextId, op)
  /\ Send(Request(nextId, op,
                  IF op = "api" THEN buildUrl(BASE_URL, PATH_TITLES, <<>>)
                                ELSE buildUrl(EXTERNAL_BASE_URL, <<>>, POSTER_QUERY),
                  NoBody))
  /\ UNCHANGED <<localStorage, authState, lastResult>>
  /\ UNCHANGED <<rootAuthState, titlesVars>>

\* The backend (or the external API) answers a request.  The browser hands
\* responses to the event loop one at a time: the next one arrives once the
\* handlers of the previous one have run.
Respond(r, resp) ==
  /\ r \in pending
  /\ \A q \in pending : q.resp = NoResponse
  /\ resp \in ResponsesTo(r.op)
  /\ pending' = (pending \ {r}) \cup {[r EXCEPT !.resp = resp]}
  /\ UNCHANGED <<localStorage, authState, nextId, lastCall, lastResult>>
  /\ UNCHANGED <<rootAuthState, titlesVars>>

\* What the service that made request r does with an error, after the
\* interceptor has seen it.
ServiceError(op, w) ==
  CASE op = "login" -> loginError(w)
    [] op = "logout" -> logoutError(w)
    [] op = "refresh" -> refreshError(w)
    [] OTHER -> w

\* What the service that made request r does with a response.
ServiceNext(op, w, body) ==
  CASE op = "login" -> loginNext(w, body)
    [] op = "logout" -> logoutNext(w)
    [] op = "refresh" -> refreshNext(w, body)
    [] OTHER -> w

\* The world after the interceptor and the service have handled the
\* response of request r.
Handled(r, st, auth) ==
  IF r.resp.kind = "err"
    THEN ServiceError(r.op,
           World(jwtInterceptorError(st, r, r.resp.status), auth))
    ELSE ServiceNext(r.op, World(st, auth), r.resp.body)

\* What the subscriber of request r receives when the handlers left w.
ResultOf(r, w) ==
  IF r.resp.kind = "err" THEN HttpErrorResult(r.id, r.op, r.resp.status)
  ELSE IF w.threw THEN ThrownResult(r.id, r.op, "MissingTokens")
  ELSE NextResult(r.id, r.op)

Finish(r, w) ==
  /\ localStorage' = w.ls
  /\ authState' = w.auth
  /\ lastResult' = ResultOf(r, w)

\* The response of request r arrives: the interceptor's catchError, then the
\* service's tap or catchError, then the caller's subscriber, in one task.
Deliver(r) ==
  /\ r \in pending
  /\ r.resp # NoResponse
  /\ pending' = pending \ {r}
  /\ Finish(r, Handled(r, localStorage, authState))
  /\ UNCHANGED <<nextId, lastCall>>
  /\ UNCHANGED <<rootAuthState, titlesVars>>

\* The page is reloaded: requests in flight are dropped, localStorage stays,
\* and both AuthService instances are constructed anew.  The user is on a
\* page without the titles grid.
Reload ==
  /\ authState' = initializeAuthState(localStorage)
  /\ rootAuthState' = initializeAuthState(localStorage)
  /\ UNCHANGED titlesVars
  /\ pending' = {}
  /\ lastCall' = NoCall
  /\ lastResult' = NoResult
  /\ UNCHANGED <<localStorage, nextId>>

Next ==
  \/ \E u \in Usernames, p \in Passwords : login(u, p)
  \/ logout
  \/ refreshSession
  \/ dismissSessionWarning
  \/ \E op \in {"api", "external"} : httpGet(op)
  \/ \E r \in pending : \E resp \in ResponsesTo(r.op) : Respond(r, resp)
  \/ \E r \in pending : Deliver(r)
  \/ Reload

Spec == Init /\ [][Next]_vars

(***************************************************************************)
(* The access-token-only revision: the AuthService that stores no refresh  *)
(* token and has no refreshSession, the TokenStorageService with two keys, *)
(* and the interceptor that sets no flag.                                  *)
(***************************************************************************)
\* TokenStorageService.clearTokens()
clearTokensMinimal(st) == removeItem(removeItem(st, ACCESS_KEY), EXP_KEY)

clearAuthStateMinimal(w) ==
  [w EXCEPT !.ls = clearTokensMinimal(w.ls), !.auth = LoggedOutState]

\* Seeded fault: only the access token is required of a login response.
handleLoginSuccessMinimal_AccessOnly(w, data) ==
  IF ~Truthy(data.access_token)
    THEN Throw(w)
    ELSE [w EXCEPT
            !.ls = storeAccessToken(w.ls, data.access_token, JUndefined),
            !.auth = updateAuthStateFromToken(data.access_token.v)]

\* handleLoginSuccess: both tokens are required, setTokens(access_token)
\* stores the access token alone.
handleLoginSuccessMinimal(w, data) ==
  IF ~Truthy(data.access_token) \/ ~Truthy(data.refresh_token)
    THEN Throw(w)
    ELSE [w EXCEPT
            !.ls = storeAccessToken(w.ls, data.access_token, JUndefined),
            !.auth = updateAuthStateFromToken(data.access_token.v)]

\* login(): tap on a response
loginNextMinimal(w, response) ==
  IF response.success /\ response.data
    THEN handleLoginSuccessMinimal(w, response)
    ELSE w

\* The interceptor's catchError: a 401 removes access token and expiration.
jwtInterceptorErrorMinimal(st, request, status) ==
  IF request.authorization # JUndefined /\ status = UNAUTHORIZED
    THEN removeItem(removeItem(st, ACCESS_KEY), EXP_KEY)
    ELSE st

\* The world after the interceptor and the service have handled the
\* response of request r: login rethrows an error, logout clears on a
\* response and on an error.
HandledMinimal(r, st, auth) ==
  LET w == IF r.resp.kind = "err"
             THEN World(jwtInterceptorErrorMinimal(st, r, r.resp.status), auth)
             ELSE World(st, auth)
  IN CASE r.op = "login" /\ r.resp.kind = "ok" -> loginNextMinimal(w, r.resp.body)
       [] r.op = "logout" -> clearAuthStateMinimal(w)
       [] OTHER -> w

DeliverMinimal(r) ==
  /\ r \in pending
  /\ r.resp # NoResponse
  /\ pending' = pending \ {r}
  /\ Finish(r, HandledMinimal(r, localStorage, authState))
  /\ rootAuthState' = authState'
  /\ UNCHANGED <<nextId, lastCall>>
  /\ UNCHANGED titlesVars

NextMinimal ==
  \/ \E u \in Usernames, p \in Passwords : login(u, p)
  \/ logout
  \/ \E op \in {"api", "external"} : httpGet(op)
  \/ \E r \in pending : \E resp \in ResponsesTo(r.op) : Respond(r, resp)
  \/ \E r \in pending : DeliverMinimal(r)
  \/ Reload

SpecMinimal == Init /\ [][NextMinimal]_vars

\* localStorage outlives the page: what an earlier visit can have left in it
\* when the application is opened, nothing or the tokens of a login.
PersistedStorages ==
  {EmptyStorage,
   setTokens(EmptyStorage, JStr(TokUser), JStr(RefreshTok1), JNum(<<"5">>))}

\* The AuthService constructed on a localStorage that an earlier visit left.
InitPersisted ==
  /\ localStorage \in PersistedStorages
  /\ authState = initializeAuthState(localStorage)
  /\ rootAuthState = initializeAuthState(localStorage)
  /\ TitlesConstructed
  /\ pending = {}
  /\ nextId = 1
  /\ lastCall = NoCall
  /\ lastResult = NoResult

SpecPersisted == InitPersisted /\ [][Next]_vars

(***************************************************************************)
(* The Titles page.  Its requests are kept apart from those of the auth    *)
(* button; the session does not change while the pager is exercised.       *)
(***************************************************************************)
\* ngOnInit: if (sessionStorage['page']) this.page = Number(...)
PageOnInit(st) ==
  IF Truthy(st[PAGE_KEY]) THEN NumberOfString(st[PAGE_KEY].v) ELSE ONE

CanLoad == Len(titleLoads) < MaxLoads

\* loadTitles(): webService.getTitles(this.page) is sent.
loadTitles(pn) == titleLoads' = Append(titleLoads, pn)

\* The route of the titles page is entered: a new component, with a new
\* CacheService, is constructed and ngOnInit runs.  What the previous
\* component had in flight no longer reaches the page.
ngOnInit ==
  /\ page' = PageOnInit(sessionStorage)
  /\ totalPages' = JUndefined
  /\ list_of_titles' = <<>>
  /\ cache' = EmptyCache
  /\ titleLoads' = <<page'>>
  /\ posterLoads' = [id \in TitleIds |-> 0]
  /\ UNCHANGED <<sessionStorage, authVars>>

\* previousPage(): if (this.page > 1) { page--; store; loadTitles() }
previousPage ==
  /\ CanLoad
  /\ IF LessThan(ONE, page)
       THEN /\ page' = Decrement(page)
            /\ sessionStorage' = setSessionItem(sessionStorage, PAGE_KEY, page')
            /\ loadTitles(page')
       ELSE UNCHANGED <<page, sessionStorage, titleLoads>>
  /\ UNCHANGED <<totalPages, list_of_titles, cache, posterLoads, authVars>>

\* nextPage(): if (this.page < this.totalPages) { page++; store; loadTitles() }
nextPage ==
  /\ CanLoad
  /\ IF LessThan(page, totalPages)
       THEN /\ page' = Increment(page)
            /\ sessionStorage' = setSessionItem(sessionStorage, PAGE_KEY, page')
            /\ loadTitles(page')
       ELSE UNCHANGED <<page, sessionStorage, titleLoads>>
  /\ UNCHANGED <<totalPages, list_of_titles, cache, posterLoads, authVars>>

\* goToFirstPage(): if (this.page !== 1) { page = 1; store; loadTitles() }
goToFirstPage ==
  /\ CanLoad
  /\ IF StrictNotEqual(page, ONE)
       THEN /\ page' = ONE
            /\ sessionStorage' = setSessionItem(sessionStorage, PAGE_KEY, page')
            /\ loadTitles(page')
       ELSE UNCHANGED <<page, sessionStorage, titleLoads>>
  /\ UNCHANGED <<totalPages, list_of_titles, cache, posterLoads, authVars>>

\* goToLastPage(): if (this.page !== this.totalPages) { page = totalPages;
\* store; loadTitles() }
goToLastPage ==
  /\ CanLoad
  /\ IF StrictNotEqual(page, totalPages)
       THEN /\ page' = totalPages
            /\ sessionStorage' = setSessionItem(sessionStorage, PAGE_KEY, page')
            /\ loadTitles(page')
       ELSE UNCHANGED <<page, sessionStorage, titleLoads>>
  /\ UNCHANGED <<totalPages, list_of_titles, cache, posterLoads, authVars>>

\* The sequence without its i-th element.
RemoveAt(q, i) == SubSeq(q, 1, i - 1) \o SubSeq(q, i + 1, Len(q))

\* The titles loadPosters() asks the external API about: those of the list
\* for which cacheService.has(title._id) is false.
PostersToLoad(c, list) ==
  {list[i] : i \in {j \in 1..Len(list) : ~CacheHas(c, list[j])}}

\* loadPosters(): one getMoviePoster request for each of these titles.
loadPosters(c, list) ==
  posterLoads' = [id \in TitleIds |->
                    IF id \in PostersToLoad(c, list) THEN posterLoads[id] + 1
                    ELSE posterLoads[id]]

\* The next handler of loadTitles(): the i-th getTitles request in flight
\* is answered.
titlesNext(i, response) ==
  /\ i \in 1..Len(titleLoads)
  /\ \A id \in PostersToLoad(cache, response.titles) :
        posterLoads[id] < MaxPosterLoads
  /\ titleLoads' = RemoveAt(titleLoads, i)
  /\ list_of_titles' = response.titles
  /\ totalPages' = response.total_pages
  /\ loadPosters(cache, list_of_titles')
  /\ UNCHANGED <<page, sessionStorage, cache, authVars>>

\* The error handler of loadTitles(): console.error only.
titlesError(i) ==
  /\ i \in 1..Len(titleLoads)
  /\ titleLoads' = RemoveAt(titleLoads, i)
  /\ UNCHANGED <<page, totalPages, list_of_titles, sessionStorage, cache,
                 posterLoads, authVars>>

\* The next handler of loadPosters(): cacheService.set(title._id,
\* response.Poster || '')
posterNext(id, response) ==
  /\ posterLoads[id] > 0
  /\ posterLoads' = [posterLoads EXCEPT ![id] = @ - 1]
  /\ cache' = CacheSet(cache, id, PosterOrEmpty(response))
  /\ UNCHANGED <<page, totalPages, list_of_titles, sessionStorage,
                 titleLoads, authVars>>

\* The error handler of loadPosters(): console.error only.
posterError(id) ==
  /\ posterLoads[id] > 0
  /\ posterLoads' = [posterLoads EXCEPT ![id] = @ - 1]
  /\ UNCHANGED <<page, totalPages, list_of_titles, sessionStorage, cache,
                 titleLoads, authVars>>

\* The application is opened on the titles page in a new tab.
InitTitles ==
  /\ localStorage = EmptyStorage
  /\ authState = initializeAuthState(EmptyStorage)
  /\ rootAuthState = initializeAuthState(EmptyStorage)
  /\ pending = {}
  /\ nextId = 1
  /\ lastCall = NoCall
  /\ lastResult = NoResult
  /\ sessionStorage = EmptySessionStorage
  /\ page = PageOnInit(sessionStorage)
  /\ totalPages = JUndefined
  /\ list_of_titles = <<>>
  /\ cache = EmptyCache
  /\ titleLoads = <<page>>
  /\ posterLoads = [id \in TitleIds |-> 0]

NextTitles ==
  \/ ngOnInit
  \/ previousPage
  \/ nextPage
  \/ goToFirstPage
  \/ goToLastPage
  \/ \E i \in 1..MaxLoads : \E response \in TitlesResponses :
       titlesNext(i, response)
  \/ \E i \in 1..MaxLoads : titlesError(i)
  \/ \E id \in TitleIds : \E response \in PosterResponses :
       posterNext(id, response)
  \/ \E id \in TitleIds : posterError(id)

SpecTitles == InitTitles /\ [][NextTitles]_vars

(***************************************************************************)
(* Properties.  A step "finishes request r" when the subscriber of r gets  *)
(* its result in that step: r is in flight before it and lastResult' is    *)
(* the result of r.                                                        *)
(***************************************************************************)
Finishes(r) == r \in pending /\ lastResult'.id = r.id

HasToken(r) == r.authorization # JUndefined

\* C1: in every reachable state isLoggedIn is true only while an access
\* token is stored; in particular it reads false after a 401 answered a
\* request that carried the token.
C1_LoggedInOnlyWithToken ==
  isLoggedIn(authState) => Truthy(getAccessToken(localStorage))

\* C2: a stored access token that cannot be decoded (wrong number of
\* segments, bad base64, payload not JSON) never comes with isLoggedIn true,
\* on whichever path it was interpreted (construction, login, refresh).
C2_UndecodableTokenIsLoggedOut ==
  (Truthy(getAccessToken(localStorage))
     /\ decodeJwtPayload(getAccessToken(localStorage).v) = JNull)
    => ~isLoggedIn(authState)

\* C3: whenever the published state is logged out, its username is null and
\* its isAdmin is false.
C3_LoggedOutHasNoIdentity ==
  ~isLoggedIn(authState)
    => currentUsername(authState) = JNull /\ ~isAdmin(authState)

\* C3 witness: a session was there (a request sent with its token is still
\* in flight) and a logout has published the logged-out state.
C3_Witness ==
  /\ ~isLoggedIn(authState)
  /\ lastResult.op = "logout"
  /\ lastResult.kind = "next"
  /\ \E r \in pending : HasToken(r) /\ r.id < lastResult.id

\* C4: when the response of a logout request arrives, success or failure,
\* the store is left without access token, refresh token and expiration and
\* the published state is logged out; a failure reaches the caller as the
\* backend's error.
C4_LogoutAlwaysClears ==
  [][\A r \in pending :
       (Finishes(r) /\ r.op = "logout")
         => /\ getAccessToken(localStorage') = JNull
            /\ getRefreshToken(localStorage') = JNull
            /\ getExpiration(localStorage') = JNull
            /\ authState' = LoggedOutState
            /\ (r.resp.kind = "err"
                  => lastResult' = HttpErrorResult(r.id, "logout",
                                                   r.resp.status))]_vars

\* C4 witness: a logout has failed while a request sent with the session's
\* token is still in flight, and the session is gone.
C4_Witness ==
  /\ lastResult.op = "logout"
  /\ lastResult.kind = "error"
  /\ \E r \in pending : HasToken(r) /\ r.id < lastResult.id
  /\ ~isLoggedIn(authState)
  /\ getRefreshToken(localStorage) = JNull

\* C5: when a request that carried the token is answered 401, the caller
\* receives that error as it is; and, unless the caller is logout or
\* refreshSession (whose own error handler then clears the whole store), the
\* step leaves no access token and no expiration, the refresh token it
\* found, and the session-expired flag set.
C5_UnauthorizedInvalidatesAccessOnly ==
  [][\A r \in pending :
       (Finishes(r) /\ HasToken(r) /\ r.resp.kind = "err"
          /\ r.resp.status = UNAUTHORIZED)
         => /\ lastResult' = HttpErrorResult(r.id, r.op, UNAUTHORIZED)
            /\ r.op \notin {"logout", "refresh"}
                 => /\ getAccessToken(localStorage') = JNull
                    /\ getExpiration(localStorage') = JNull
                    /\ getRefreshToken(localStorage')
                         = getRefreshToken(localStorage)
                    /\ isSessionExpired(localStorage')]_vars

\* C5 witness: a 401 has answered a page's API request and the refresh token
\* of the session is still stored.
C5_Witness ==
  /\ lastResult.op = "api"
  /\ lastResult.kind = "error"
  /\ lastResult.status = UNAUTHORIZED
  /\ isSessionExpired(localStorage)
  /\ getRefreshToken(localStorage) = JStr(RefreshTok2)
  /\ getAccessToken(localStorage) = JNull

\* C6: no request in flight whose URL is outside the API base, or is the
\* login endpoint, has an Authorization header.
C6_NoHeaderOutsideApiOrOnLogin ==
  \A r \in pending :
    (~StartsWith(r.url, API_BASE) \/ EndsWith(r.url, LOGIN_SUFFIX))
      => ~HasToken(r)

\* C6 witness: after a login, and with nothing finished since, an API request
\* went out with the token and then a request to the external API went out.
C6_Witness ==
  /\ lastResult.op = "login"
  /\ lastResult.kind = "next"
  /\ Truthy(getAccessToken(localStorage))
  /\ \E r2, r3 \in pending :
       /\ lastResult.id < r2.id /\ r2.id < r3.id
       /\ HasToken(r2)
       /\ ~StartsWith(r3.url, API_BASE)

\* C7: a request to the API other than login goes out with the header
\* "Bearer <t>" exactly when an access token t is stored as it is sent, t
\* being that stored token, and without the header otherwise.
C7_BearerIffTokenStored ==
  [][\A r \in pending' \ pending :
       (r.resp = NoResponse /\ StartsWith(r.url, API_BASE)
          /\ ~EndsWith(r.url, LOGIN_SUFFIX))
         => r.authorization =
              IF getAccessToken(localStorage) = JNull
                THEN JUndefined
                ELSE JStr(BEARER \o getAccessToken(localStorage).v)]_vars

\* C7 witness: an API request in flight carries the stored token, and
\* another one, sent when none was stored, carries no header.
C7_Witness ==
  \E r1, r2 \in pending :
    /\ r1.op = "api" /\ r1.authorization = JUndefined
    /\ r2.op = "api" /\ r2.authorization = JStr(BEARER \o TokAdmin)
    /\ getAccessToken(localStorage) = JStr(TokAdmin)

\* C8: a login call whose username is empty once trimmed, or whose password
\* is empty, gives its caller an error at once, sends nothing, and leaves
\* the store and the published state as they were.
C8_EmptyCredentialsShortCircuit ==
  [][(lastCall'.id # lastCall.id /\ lastCall'.op = "login"
        /\ (Trim(lastCall'.username) = <<>> \/ lastCall'.password = <<>>))
       => /\ lastResult'.id = lastCall'.id
          /\ lastResult'.kind = "error"
          /\ pending' = pending
          /\ localStorage' = localStorage
          /\ authState' = authState]_vars

\* C8 witness: a login with a blank username was refused while a session
\* was stored.
C8_Witness ==
  /\ lastCall.op = "login"
  /\ lastCall.username = <<" ">>
  /\ lastCall.password # <<>>
  /\ lastResult = ThrownResult(lastCall.id, "login", "InvalidInput")
  /\ isLoggedIn(authState)
  /\ Truthy(getAccessToken(localStorage))

\* C9: when the backend answers a login request with an error, the store and
\* the published state stay exactly as they were and the caller receives
\* that error.
C9_FailedLoginChangesNothing ==
  [][\A r \in pending :
       (Finishes(r) /\ r.op = "login" /\ r.resp.kind = "err")
         => /\ localStorage' = localStorage
            /\ authState' = authState
            /\ lastResult' = HttpErrorResult(r.id, "login",
                                             r.resp.status)]_vars

\* C9 witness: a login has been refused with 401 and the session that was
\* there before is still there.
C9_Witness ==
  /\ lastResult.op = "login"
  /\ lastResult.kind = "error"
  /\ lastResult.status = UNAUTHORIZED
  /\ isLoggedIn(authState)
  /\ getAccessToken(localStorage) = JStr(TokUser)
  /\ getRefreshToken(localStorage) = JStr(RefreshTok1)

\* C10: when a login response reports success and has an access token and a
\* refresh token, both are stored and the published state is logged in, with
\* the user claim of the new access token as username (null if the token
\* has none) and the truthiness of its admin claim as isAdmin.
C10_LoginSuccessStoresAndPublishes ==
  [][\A r \in pending :
       (Finishes(r) /\ r.op = "login" /\ r.resp.kind = "ok"
          /\ r.resp.body.success /\ r.resp.body.data
          /\ Truthy(r.resp.body.access_token)
          /\ Truthy(r.resp.body.refresh_token))
         => /\ getAccessToken(localStorage') = r.resp.body.access_token
            /\ getRefreshToken(localStorage') = r.resp.body.refresh_token
            /\ isLoggedIn(authState')
            /\ currentUsername(authState')
                 = getClaimFromToken(r.resp.body.access_token.v, CLAIM_USER)
            /\ isAdmin(authState')
                 = Truthy(getClaimFromToken(r.resp.body.access_token.v,
                                            CLAIM_ADMIN))
            /\ (r.resp.body.access_token = JStr(TokAdmin)
                  => authState' = [isLoggedIn |-> TRUE,
                                   username |-> JStr(<<"b","o","?">>),
                                   isAdmin |-> TRUE])
            /\ (r.resp.body.access_token = JStr(TokUser)
                  => authState' = [isLoggedIn |-> TRUE,
                                   username |-> JStr(<<"a","l",">">>),
                                   isAdmin |-> FALSE])]_vars

\* C10 witness: a login has succeeded over an older session and the store
\* and the published state are those of the new tokens.
C10_Witness ==
  /\ lastResult.op = "login"
  /\ lastResult.kind = "next"
  /\ lastResult.id > 1
  /\ getAccessToken(localStorage) = JStr(TokAdmin)
  /\ getRefreshToken(localStorage) = JStr(RefreshTok2)
  /\ authState = [isLoggedIn |-> TRUE, username |-> JStr(<<"b","o","?">>),
                  isAdmin |-> TRUE]
  /\ getExpiration(localStorage) = JStr(<<"5">>)

\* C11: refreshSession() called while no refresh token is stored sends no
\* request, fails with the no-refresh-token error, leaves localStorage
\* without tokens, expiration or flag, and publishes the logged-out state.
C11_RefreshWithoutTokenFailsAndClears ==
  [][(/\ lastCall' = Call(nextId, "refresh")
      /\ nextId' = nextId + 1
      /\ ~Truthy(getRefreshToken(localStorage)))
     => (/\ pending' = pending
         /\ lastResult' = ThrownResult(nextId, "refresh", "NoRefreshToken")
         /\ localStorage' = EmptyStorage
         /\ authState' = LoggedOutState)]_vars

\* refreshSession() has failed for want of a refresh token as the third
\* call, after a logout, while no request of its own is in flight.
C11_Witness ==
  /\ lastResult = ThrownResult(MaxCalls, "refresh", "NoRefreshToken")
  /\ lastCall = Call(MaxCalls, "refresh")
  /\ getRefreshToken(localStorage) = JNull
  /\ \A r \in pending : r.op # "refresh"

\* C12: when the backend answers a refresh request with an error, the store
\* is left without access token, refresh token and expiration, the published
\* state is logged out, and the caller receives the backend's error.
C12_FailedRefreshClearsAll ==
  [][\A r \in pending :
       (Finishes(r) /\ r.op = "refresh" /\ r.resp.kind = "err")
         => /\ r.body.refresh_token # <<>>
            /\ getAccessToken(localStorage') = JNull
            /\ getRefreshToken(localStorage') = JNull
            /\ getExpiration(localStorage') = JNull
            /\ authState' = LoggedOutState
            /\ lastResult' = HttpErrorResult(r.id, "refresh",
                                             r.resp.status)]_vars

\* C12 witness: a refresh has failed with a server error while a request
\* sent with the session's token is still in flight, and the session is gone.
C12_Witness ==
  /\ lastResult.op = "refresh"
  /\ lastResult.kind = "error"
  /\ lastResult.status = 500
  /\ \E r \in pending : HasToken(r) /\ r.id < lastResult.id
  /\ ~isLoggedIn(authState)
  /\ getRefreshToken(localStorage) = JNull

C14_UnauthorizedShowsExpiredSession ==
  [][/\ hasExpiredSession(localStorage', authState')
          = (/\ ~isLoggedIn(authState')
             /\ Truthy(getRefreshToken(localStorage'))
             /\ isSessionExpired(localStorage'))
     /\ \A r \in pending :
          (Finishes(r) /\ HasToken(r) /\ r.resp.kind = "err"
             /\ r.resp.status = UNAUTHORIZED
             /\ r.op \notin {"logout", "refresh"}
             /\ Truthy(getRefreshToken(localStorage)))
            => hasExpiredSession(localStorage', authState')]_vars

\* A response that makes login() write the tokens, or refreshSession() write
\* the access token.
WritesTokens(r) ==
  /\ r.resp.kind = "ok" /\ r.resp.body.success /\ r.resp.body.data
  /\ Truthy(r.resp.body.access_token)
  /\ \/ r.op = "login" /\ Truthy(r.resp.body.refresh_token)
     \/ r.op = "refresh"

StateOfToken(token) ==
  [isLoggedIn |-> TRUE,
   username |-> getClaimFromToken(token.v, CLAIM_USER),
   isAdmin |-> Truthy(getClaimFromToken(token.v, CLAIM_ADMIN))]

\* C19 as stated: when the successful response of a login arrives after the
\* response of a login that was called later (so the two calls overlapped),
\* the whole store and the published state are those of the response that
\* arrives last: its tokens, its expiration (none if it has none), no flag.
C19_LastLoginOwnsWholeStore ==
  [][\A r \in pending :
       (/\ Finishes(r) /\ r.op = "login" /\ WritesTokens(r)
        /\ lastResult.op = "login" /\ lastResult.kind = "next"
        /\ lastResult.id > r.id)
         => /\ getAccessToken(localStorage') = r.resp.body.access_token
            /\ getRefreshToken(localStorage') = r.resp.body.refresh_token
            /\ getExpiration(localStorage')
                 = (IF Truthy(r.resp.body.expiration)
                      THEN JStr(ToStringJS(r.resp.body.expiration))
                      ELSE JNull)
            /\ ~isSessionExpired(localStorage')
            /\ authState' = StateOfToken(r.resp.body.access_token)]_vars

\* C19, the part that holds: when the successful response of a login
\* arrives after the response of another login, in either order of the
\* calls, the access token, the refresh token and the published state are
\* those of the response that arrives last and the flag is clear; the
\* expiration is that of the last response if it has one, and otherwise
\* stays what it was.
C19_LastLoginWinsTokensAndState ==
  [][\A r \in pending :
       (/\ Finishes(r) /\ r.op = "login" /\ WritesTokens(r)
        /\ lastResult.op = "login" /\ lastResult.kind = "next")
         => /\ lastResult' = NextResult(r.id, "login")
            /\ getAccessToken(localStorage') = r.resp.body.access_token
            /\ getRefreshToken(localStorage') = r.resp.body.refresh_token
            /\ getExpiration(localStorage')
                 = (IF Truthy(r.resp.body.expiration)
                      THEN JStr(ToStringJS(r.resp.body.expiration))
                      ELSE getExpiration(localStorage))
            /\ ~isSessionExpired(localStorage')
            /\ authState' = StateOfToken(r.resp.body.access_token)]_vars

\* C19, the case reached: two logins were called and the response of the
\* first has arrived last (the second call is the last call made, its
\* request is no longer in flight, and the last result is the first's):
\* tokens and state are those of the response that arrived last, the
\* expiration is the one that the other response wrote.
C19_Witness ==
  /\ lastCall.op = "login" /\ lastCall.id = 2
  /\ lastResult = NextResult(1, "login")
  /\ pending = {}
  /\ getAccessToken(localStorage) = JStr(TokAdmin)
  /\ getRefreshToken(localStorage) = JStr(RefreshTok2)
  /\ getExpiration(localStorage) = JStr(<<"5">>)
  /\ authState = [isLoggedIn |-> TRUE, username |-> JStr(<<"b","o","?">>),
                  isAdmin |-> TRUE]

\* C20: a freshly constructed AuthService (no call has been made on it yet)
\* has sent no request and delivered no result; its state is logged out when
\* no access token is stored, and logged in with the user claim as username
\* and the truthiness of the admin claim as isAdmin when a decodable access
\* token is stored.
C20_ConstructionReadsStore ==
  lastCall = NoCall
    => /\ pending = {}
       /\ lastResult = NoResult
       /\ ~Truthy(getAccessToken(localStorage)) => authState = LoggedOutState
       /\ getAccessToken(localStorage) = JStr(TokUser)
            => authState = [isLoggedIn |-> TRUE,
                            username |-> JStr(<<"a","l",">">>),
                            isAdmin |-> FALSE]
       /\ getAccessToken(localStorage) = JStr(TokAdmin)
            => authState = [isLoggedIn |-> TRUE,
                            username |-> JStr(<<"b","o","?">>),
                            isAdmin |-> TRUE]

\* C20 witness: the page has been loaded again after a login as the
\* administrator, and the new AuthService is logged in as that user.
C20_Witness ==
  /\ lastCall = NoCall
  /\ nextId > 1
  /\ getAccessToken(localStorage) = JStr(TokAdmin)
  /\ authState = [isLoggedIn |-> TRUE, username |-> JStr(<<"b","o","?">>),
                  isAdmin |-> TRUE]

\* Spellings of one username that differ in case and in surrounding
\* whitespace only.
SpellingsOfAl ==
  {<<"a","l">>, <<" ","A","l">>, <<"a","L"," ">>, <<" "," ","A","L"," ">>}

\* C21: the request that login() sends carries the caller's username trimmed
\* and lowercased and the caller's password as it was given (here with its
\* leading blank and its capital); and all spellings of a username that
\* differ in case or surrounding whitespace only normalise to the same one,
\* so that they give the same request.
C21_NormalisedUsernameIsSent ==
  [][/\ \A r \in pending' \ pending :
          (r.op = "login" /\ r.resp = NoResponse)
            => /\ lastCall'.op = "login" /\ lastCall'.id = r.id
               /\ lastCall'.username \in SpellingsOfAl
               /\ r.body.username = <<"a","l">>
               /\ r.body.password = lastCall'.password
               /\ r.body.password = <<" ","P">>
               /\ r.url = buildUrl(BASE_URL, PATH_LOGIN, <<>>)
     /\ \A u \in SpellingsOfAl : normalizeUsername(u) = <<"a","l">>]_vars

\* C21 witness: a login typed with a leading blank and a capital is in
\* flight with the normalised username and the password as typed.
C21_Witness ==
  /\ lastCall.op = "login"
  /\ lastCall.username = <<" ","A","l">>
  /\ \E r \in pending :
       /\ r.id = lastCall.id
       /\ r.body.username = <<"a","l">>
       /\ r.body.password = <<" ","P">>

\* The expirations that a write of access token t can store with it: the
\* expiration field of a login response that carries t, and the exp claim
\* of t that a refresh copies out of it.
ExpirationsWrittenWith(t) ==
  {JStr(ToStringJS(b.expiration)) :
     b \in {c \in LoginBodies : c.access_token = t /\ Truthy(c.expiration)}}
  \cup (IF Truthy(getClaimFromToken(t.v, CLAIM_EXP))
          THEN {JStr(ToStringJS(getClaimFromToken(t.v, CLAIM_EXP)))}
          ELSE {})

\* C22: whenever an access token and an expiration are both stored, the
\* expiration is one that a write of that access token stores with it.
C22_ExpirationBelongsToToken ==
  (Truthy(getAccessToken(localStorage)) /\ Truthy(getExpiration(localStorage)))
    => getExpiration(localStorage)
         \in ExpirationsWrittenWith(getAccessToken(localStorage))

\* The values loadPosters() hands to set(): a poster URL, or the empty
\* string when the lookup returned no poster.
PosterValues == {PosterOrEmpty(response) : response \in PosterResponses}

\* C23, the cache alone: after set(id, url), for any url that loadPosters
\* stores, has(id) is true and get(id) returns url.
C23_SetThenHasAndGet ==
  \A id \in TitleIds : \A url \in PosterValues :
    /\ CacheHas(CacheSet(cache, id, url), id)
    /\ CacheGet(CacheSet(cache, id, url), id) = url

\* C23: once the result of a title's poster lookup has been cached, with or
\* without a poster, no step issues another poster request for that title.
C23_CachedLookupNotRepeated ==
  [][\A id \in TitleIds :
       cache[id] # JUndefined => posterLoads'[id] <= posterLoads[id]]_vars

\* C24: a 401 that answers a page's request sent with another token than the
\* one stored now (a later login or refresh has replaced it) leaves the
\* stored access token and the session-expired flag as they are.
C24_StaleUnauthorizedKeepsNewerToken ==
  [][\A r \in pending :
       (Finishes(r) /\ HasToken(r) /\ r.resp.kind = "err"
          /\ r.resp.status = UNAUTHORIZED
          /\ r.op \notin {"logout", "refresh"}
          /\ Truthy(getAccessToken(localStorage))
          /\ r.authorization # JStr(BEARER \o getAccessToken(localStorage).v))
         => /\ getAccessToken(localStorage') = getAccessToken(localStorage)
            /\ isSessionExpired(localStorage')
                 = isSessionExpired(localStorage)]_vars

\* C25: when the response of a logout or of a refreshSession arrives after a
\* login called later has succeeded (the last result is that login's, the
\* state is logged in, and the token stored is not the one the old request
\* was sent with), the step leaves the tokens stored and the state logged in.
C25_LateLogoutKeepsNewerLogin ==
  [][\A r \in pending :
       (Finishes(r) /\ r.op \in {"logout", "refresh"}
          /\ lastResult.op = "login" /\ lastResult.kind = "next"
          /\ lastResult.id > r.id
          /\ isLoggedIn(authState)
          /\ Truthy(getAccessToken(localStorage))
          /\ Truthy(getRefreshToken(localStorage))
          /\ r.authorization # JStr(BEARER \o getAccessToken(localStorage).v))
         => /\ isLoggedIn(authState')
            /\ Truthy(getAccessToken(localStorage'))
            /\ Truthy(getRefreshToken(localStorage'))]_vars

\* C26: whenever the subscriber of refreshSession() receives a response (and
\* not an error), whatever the body of that response, the state published
\* after the step is logged in and an access token is stored.
C26_RefreshDeliveredMeansSession ==
  [][\A r \in pending :
       (Finishes(r) /\ r.op = "refresh" /\ lastResult'.kind = "next")
         => /\ isLoggedIn(authState')
            /\ Truthy(getAccessToken(localStorage'))]_vars

\* C27: whenever the published state is logged in and an access token is
\* stored, the published username is the user claim of that token and
\* isAdmin is the truthiness of its admin claim.
C27_IdentityIsThatOfStoredToken ==
  (isLoggedIn(authState) /\ Truthy(getAccessToken(localStorage)))
    => authState = StateOfToken(getAccessToken(localStorage))

\* C27 witness: a refresh has replaced the user's access token by one of the
\* administrator, and the published identity is the administrator's.
C27_Witness ==
  /\ lastResult.op = "refresh" /\ lastResult.kind = "next"
  /\ getAccessToken(localStorage) = JStr(TokAdmin)
  /\ authState = [isLoggedIn |-> TRUE, username |-> JStr(<<"b","o","?">>),
                  isAdmin |-> TRUE]

C29_ConsumersSeeButtonState ==
  [][\A r \in pending :
       (Finishes(r) /\ r.op \in {"login", "logout"})
         => rootAuthState' = authState']_vars

\* C30: in every state of the titles pager the current page is an integer
\* of at least 1, it does not exceed totalPages once totalPages is known,
\* and the page kept in sessionStorage, when there is one, is the current
\* page.
C30_PageWithinRangeAndPersisted ==
  /\ IsInteger(page)
  /\ LessThan(JNum(<<"0">>), page)
  /\ totalPages # JUndefined => ~LessThan(totalPages, page)
  /\ sessionStorage[PAGE_KEY] # JUndefined
       => NumberOfString(sessionStorage[PAGE_KEY].v) = page

====
